---- MODULE Spec2Model ----
(***************************************************************************)
(* A model of the fund-statement risk analyzer: the ISO 20022 extraction   *)
(* and answer pipeline of app.py (XMLRiskAnalyzer) and the simple-schema   *)
(* batch loader of process_xml.py.                                         *)
(*                                                                         *)
(* Conventions                                                             *)
(*  - The text of an XML element is a tuple of one-character strings; the  *)
(*    empty tuple is Python's None (ElementTree gives an element without   *)
(*    text the value None, never "").                                      *)
(*  - A Python float is a fixed-point integer in hundredths (Scale).       *)
(*  - A Python dict is a function whose DOMAIN is the set of its keys.     *)
(*  - A call that may raise returns [exc |-> <exception name>, val |-> _]; *)
(*    exc = "none" is a normal return.                                     *)
(***************************************************************************)
EXTENDS Integers, Sequences, FiniteSets, TLC

\* ------------------------------------------------------------------ bounds

\* Most files a directory listing holds.
MaxFiles == 23

\* Most files of a directory listing that are not regular statements.
MaxOdd == 2

\* Most BalForSubAcct nodes of a generated statement.
MaxSubs == 1

\* Most file paths handed to load_and_process_all_xmls.
MaxBatch == 3

\* ------------------------------------------------------- program constants

MIN_XML_FILES == 21

\* Hundredths: the fixed-point unit of a float read from a document.
Scale == 100

\* ------------------------------------------------------------------- text

Digits == <<"0", "1", "2", "3", "4", "5", "6", "7", "8", "9">>

DigitVal(c) == (CHOOSE i \in 1..10 : Digits[i] = c) - 1

AllDigits(s) == \A i \in 1..Len(s) : \E k \in 1..10 : Digits[k] = s[i]

RECURSIVE DigitsToNat(_)
DigitsToNat(s) ==
    IF s = <<>> THEN 0
    ELSE 10 * DigitsToNat(SubSeq(s, 1, Len(s) - 1)) + DigitVal(s[Len(s)])

RECURSIVE NatToDigits(_)
NatToDigits(n) ==
    IF n < 10 THEN <<Digits[n + 1]>>
    ELSE NatToDigits(n \div 10) \o <<Digits[(n % 10) + 1]>>

\* Index of the first "." of s, or 0.
DotAt(s) ==
    IF \E i \in 1..Len(s) : s[i] = "."
    THEN CHOOSE i \in 1..Len(s) : s[i] = "." /\ \A j \in 1..(i - 1) : s[j] # "."
    ELSE 0

\* float(text) of Python for text None (<<>>), a decimal literal with an
\* optional sign and at most two fraction digits, or any other text.  ip and
\* fp are the digits before and after the point, fp read as hundredths.
FloatOfParts(ip, fp) ==
    IF /\ AllDigits(ip) /\ AllDigits(fp)
       /\ Len(ip) + Len(fp) > 0
       /\ Len(fp) <= 2
    THEN [exc |-> "none",
          val |-> Scale * DigitsToNat(ip)
                    + (IF Len(fp) = 0 THEN 0
                       ELSE IF Len(fp) = 1 THEN 10 * DigitVal(fp[1])
                       ELSE 10 * DigitVal(fp[1]) + DigitVal(fp[2]))]
    ELSE [exc |-> "ValueError", val |-> 0]

FloatUnsigned(s) ==
    IF DotAt(s) = 0 THEN FloatOfParts(s, <<>>)
    ELSE FloatOfParts(SubSeq(s, 1, DotAt(s) - 1), SubSeq(s, DotAt(s) + 1, Len(s)))

Float(text) ==
    IF text = <<>> THEN [exc |-> "TypeError", val |-> 0]
    ELSE IF text[1] = "-"
    THEN [exc |-> FloatUnsigned(Tail(text)).exc, val |-> 0 - FloatUnsigned(Tail(text)).val]
    ELSE FloatUnsigned(text)

\* ------------------------------------------------------------- documents

\* An element looked up by a path: absent, or present with its text.
Absent == [present |-> FALSE, text |-> <<>>]

Elem(t) == [present |-> TRUE, text |-> t]

\* The text "NAVL" of a price type code.
NAVL == <<"N", "A", "V", "L">>

\* A parsed document as the XPath lookups of app.py see it.  wf: the bytes
\* are well-formed XML.  fund: the statement-level elements (FinInstrmId/Desc,
\* FinInstrmId/OthrId/Id, StmtDtTm/Dt, TtlHldgsValOfStmt/Amt, the Tp/Cd and
\* Val/Amt of the statement-level PricDtls, AggtBal/.../Unit).  subs: the
\* BalForSubAcct nodes in document order, after the statement-level elements;
\* the PricDtls of a sub-account is of a type other than NAVL.
Doc(wf, fund, subs) == [wf |-> wf, fund |-> fund, subs |-> subs]

FundPart(desc, othr, dt, ttl, cd, nav, unit) ==
    [Desc |-> desc, OthrId |-> othr, Dt |-> dt, TtlAmt |-> ttl,
     PricCd |-> cd, NavAmt |-> nav, Unit |-> unit]

SubNode(desc, isin, unit, pric, hldg) ==
    [Desc |-> desc, ISIN |-> isin, Unit |-> unit, PricAmt |-> pric, HldgAmt |-> hldg]

\* root.find('.//...'): the first match in document order, the statement-level
\* element if there is one, else the element of the first sub-account having it.
FirstPresent(elems) ==
    IF \E i \in 1..Len(elems) : elems[i].present
    THEN elems[CHOOSE i \in 1..Len(elems) :
                 elems[i].present /\ \A j \in 1..(i - 1) : ~elems[j].present]
    ELSE Absent

RootFindDesc(doc) ==
    FirstPresent(<<doc.fund.Desc>> \o [i \in 1..Len(doc.subs) |-> doc.subs[i].Desc])

RootFindUnit(doc) ==
    FirstPresent(<<doc.fund.Unit>> \o [i \in 1..Len(doc.subs) |-> doc.subs[i].Unit])

\* './/ISO:PricDtls[ISO:Tp/ISO:Cd="NAVL"]/ISO:Val/ISO:Amt'
RootFindNav(doc) ==
    IF doc.fund.PricCd.present /\ doc.fund.PricCd.text = NAVL
    THEN doc.fund.NavAmt ELSE Absent

\* -------------------------------------------------- app.py: XMLRiskAnalyzer

\* Python's None, and the value of a variable nothing was assigned to.
None == [none |-> TRUE]

Return(v) == [exc |-> "none", val |-> v]

Raise(e) == [exc |-> e, val |-> <<>>]

\* A statement sequence that raises exc unless exc = "none", and returns val.
Checked(exc, val) == IF exc # "none" THEN Raise(exc) ELSE Return(val)

\* The first of excs that is an exception, or "none".
FirstExc(excs) ==
    IF \E i \in 1..Len(excs) : excs[i] # "none"
    THEN excs[CHOOSE i \in 1..Len(excs) :
                excs[i] # "none" /\ \A j \in 1..(i - 1) : excs[j] = "none"]
    ELSE "none"

\* The exception of the first float(elem.text) that raises, over the elements
\* that were found, in the order the code converts them.
FirstFloatExc(elems) ==
    FirstExc([i \in 1..Len(elems) |->
                 IF elems[i].present THEN Float(elems[i].text).exc ELSE "none"])

\* extract_fund_info after its six lookups.
fund_info_of(desc, cnpj, date, total, nav, qty) ==
    Checked(FirstFloatExc(<<total, nav, qty>>),
            [k \in {k \in {"fund_name", "fund_cnpj", "statement_date",
                            "total_holdings", "nav_price", "total_units"} :
                       \/ k = "fund_name" /\ desc.present
                       \/ k = "fund_cnpj" /\ cnpj.present
                       \/ k = "statement_date" /\ date.present
                       \/ k = "total_holdings" /\ total.present
                       \/ k = "nav_price" /\ nav.present
                       \/ k = "total_units" /\ qty.present} |->
                CASE k = "fund_name" -> desc.text
                  [] k = "fund_cnpj" -> cnpj.text
                  [] k = "statement_date" -> date.text
                  [] k = "total_holdings" -> Float(total.text).val
                  [] k = "nav_price" -> Float(nav.text).val
                  [] k = "total_units" -> Float(qty.text).val])

extract_fund_info(doc) ==
    fund_info_of(RootFindDesc(doc), doc.fund.OthrId, doc.fund.Dt,
                 doc.fund.TtlAmt, RootFindNav(doc), RootFindUnit(doc))

\* The body of the loop of extract_positions for one BalForSubAcct node: the
\* keys it sets, 'currency' always among them.
position_of(sub) ==
    Checked(FirstFloatExc(<<sub.Unit, sub.PricAmt, sub.HldgAmt>>),
            [k \in {k \in {"instrument_name", "isin", "quantity", "price",
                            "holding_value", "currency"} :
                       \/ k = "instrument_name" /\ sub.Desc.present
                       \/ k = "isin" /\ sub.ISIN.present
                       \/ k = "quantity" /\ sub.Unit.present
                       \/ k = "price" /\ sub.PricAmt.present
                       \/ k = "holding_value" /\ sub.HldgAmt.present
                       \/ k = "currency"} |->
                CASE k = "instrument_name" -> sub.Desc.text
                  [] k = "isin" -> sub.ISIN.text
                  [] k = "quantity" -> Float(sub.Unit.text).val
                  [] k = "price" -> Float(sub.PricAmt.text).val
                  [] k = "holding_value" -> Float(sub.HldgAmt.text).val
                  [] k = "currency" -> <<"B", "R", "L">>])

\* positions.append(position) for every node, unless a node raised.
extract_positions(doc) ==
    Checked(FirstExc([i \in 1..Len(doc.subs) |-> position_of(doc.subs[i]).exc]),
            [i \in 1..Len(doc.subs) |-> position_of(doc.subs[i]).val])

\* An f-string: its template and the texts it interpolates.
Msg(fmt, args) == [fmt |-> fmt, args |-> args]

\* Ten-thousandths of a percent: the fixed-point unit of a risk metric.
MetricScale == 10000

RECURSIVE ISqrtBetween(_, _, _)
ISqrtBetween(n, lo, hi) ==
    IF lo >= hi THEN lo
    ELSE LET mid == (lo + hi + 1) \div 2
         IN  IF mid * mid <= n THEN ISqrtBetween(n, mid, hi)
             ELSE ISqrtBetween(n, lo, mid - 1)

\* math.sqrt(x) in thousandths, for x up to 2000.
SqrtMilli(x) == ISqrtBetween(x * 1000000, 0, 46340)

\* z_score_95 = 1.645 and estimated_daily_vol = 0.015, in thousandths.
z_score_95 == 1645

estimated_daily_vol == 15

stress_scenarios ==
    [ibovespa_worst |-> "Cenario 1: Queda de 15% no IBOVESPA",
     juros_pre_worst |-> "Cenario 2: Alta de 200 bps na taxa de juros",
     cupom_cambial_worst |-> "Cenario 3: Alta de 150 bps no cupom cambial",
     dolar_worst |-> "Cenario 4: Valorizacao de 20% do dolar",
     outros_worst |-> "Cenario 5: Stress combinado de liquidez"]

\* calculate_risk_metrics as first defined (math.sqrt).  z * vol * sqrt(21) is
\* in 10^-9; times 100 it is a percentage in 10^-7, here cut to MetricScale.
calculate_risk_metrics_first(positions, fund_info) ==
    LET var_21_days == z_score_95 * estimated_daily_vol * SqrtMilli(21)
    IN  Return([var_21_days_95_percent |-> var_21_days \div 1000,
                var_model_class |-> "Simulacao Historica",
                stress_scenarios |-> stress_scenarios,
                daily_expected_variation |-> 1200,
                worst_stress_variation |-> 0 - 28500,
                sensitivity_juros_1pct |-> 0 - 4500,
                sensitivity_cambio_1pct |-> 2300,
                sensitivity_ibovespa_1pct |-> 7800,
                sensitivity_other_factor |-> 0 - 1500,
                other_risk_factor |-> "Spread de Credito"])

\* calculate_risk_metrics as redefined by the second class statement of the
\* file: it evaluates np.sqrt, and no name np is bound in the module.
\* defs: which class statement of app.py bound XMLRiskAnalyzer, "first" while
\* the script serves from app.run of line 415, "last" once the file is loaded
\* in full (an import of the module).
calculate_risk_metrics(defs, positions, fund_info) ==
    IF defs = "first" THEN calculate_risk_metrics_first(positions, fund_info)
    ELSE Raise("NameError")

\* The try block of parse_xml_file, statement by statement: each operator is
\* the rest of the block after the statement whose value it is given.
after_risk_metrics(fi, ps, rm) ==
    Checked(rm.exc, [fund_info |-> fi.val, positions |-> ps.val, risk_metrics |-> rm.val])

after_positions(defs, fi, ps) ==
    IF ps.exc # "none" THEN Raise(ps.exc)
    ELSE after_risk_metrics(fi, ps, calculate_risk_metrics(defs, ps.val, fi.val))

after_fund_info(defs, doc, fi) ==
    IF fi.exc # "none" THEN Raise(fi.exc)
    ELSE after_positions(defs, fi, extract_positions(doc))

parse_steps(defs, doc) ==
    IF ~doc.wf THEN Raise("ParseError")
    ELSE after_fund_info(defs, doc, extract_fund_info(doc))

\* The dict parse_xml_file returns for file_path, r being the outcome of its
\* try block: except Exception turns whatever was raised into an 'error'.
\* os.path.basename(file_path) is what follows the directory and its "/".
parse_result(dir, file_path, r) ==
    IF r.exc # "none"
    THEN [error |-> Msg("Erro ao processar {}: {}", <<file_path, <<r.exc>>>>)]
    ELSE [file_name |-> SubSeq(file_path, Len(dir) + 2, Len(file_path)),
          fund_info |-> r.val.fund_info,
          positions |-> r.val.positions,
          risk_metrics |-> r.val.risk_metrics,
          total_holdings |->
              IF "total_holdings" \in DOMAIN r.val.fund_info
              THEN r.val.fund_info["total_holdings"] ELSE 0]

parse_xml_file(defs, dir, name, doc) ==
    parse_result(dir, dir \o <<"/">> \o name, parse_steps(defs, doc))

\* 'error' in r
HasError(r) == "error" \in DOMAIN r

\* f"{x:.2f}%" of a metric x held in MetricScale units.
Format2(x) ==
    (IF x < 0 THEN <<"-">> ELSE <<>>)
        \o NatToDigits((((IF x < 0 THEN 0 - x ELSE x) + (MetricScale \div 200))
                            \div (MetricScale \div 100)) \div 100)
        \o <<".",
             Digits[(((((IF x < 0 THEN 0 - x ELSE x) + (MetricScale \div 200))
                          \div (MetricScale \div 100)) % 100) \div 10) + 1],
             Digits[((((IF x < 0 THEN 0 - x ELSE x) + (MetricScale \div 200))
                         \div (MetricScale \div 100)) % 10) + 1],
             "%">>

\* f.endswith('.xml')
EndsWithXml(f) ==
    Len(f) >= 4 /\ SubSeq(f, Len(f) - 3, Len(f)) = <<".", "x", "m", "l">>

\* process_all_files(directory_path) over a directory holding files (each a
\* name and a document, in os.listdir order): the list it returns and the
\* number of parse_xml_file calls it made.
parse_all(defs, dir, xml_files) ==
    [results |-> SelectSeq([i \in 1..Len(xml_files) |->
                               parse_xml_file(defs, dir, xml_files[i].name,
                                              xml_files[i].doc)],
                           LAMBDA r : DOMAIN r # {}),
     parsed |-> Len(xml_files)]

\* process_all_files without its test of the file count.
count_check_skipped(defs, dir, xml_files) == parse_all(defs, dir, xml_files)

count_check(defs, dir, xml_files) ==
    IF Len(xml_files) < MIN_XML_FILES
    THEN [results |-> <<[error |-> Msg("Minimo de {} arquivos XML necessarios. Encontrados: {}",
                                       <<NatToDigits(MIN_XML_FILES),
                                         NatToDigits(Len(xml_files))>>)]>>,
          parsed |-> 0]
    ELSE parse_all(defs, dir, xml_files)

process_all_files(defs, dir, exists, files) ==
    IF ~exists
    THEN [results |-> <<[error |-> Msg("Diretorio nao encontrado: {}", <<dir>>)]>>,
          parsed |-> 0]
    ELSE count_check(defs, dir, SelectSeq(files, LAMBDA f : EndsWithXml(f.name)))

\* .get(key, 'N/A')
GetOrNA(d, key) == IF key \in DOMAIN d THEN d[key] ELSE <<"N", "/", "A">>

\* A list of errors cut to its first entry.
errors_first_only(results) ==
    IF SelectSeq(results, HasError) = <<>> THEN <<>>
    ELSE <<Head(SelectSeq(results, HasError))>>

\* [r for r in results if 'error' in r]
errors_of(results) == SelectSeq(results, HasError)

\* The answers dict of generate_answers, built from the first valid result.
answers_of(results, valid_results, fund_info, risk_metrics) ==
    ("fund_name" :> GetOrNA(fund_info, "fund_name"))
    @@ ("statement_date" :> GetOrNA(fund_info, "statement_date"))
    @@ ("total_files_processed" :> Len(valid_results))
    @@ ("total_files_required" :> MIN_XML_FILES)
    @@ ("validation_status" :>
          IF Len(valid_results) >= MIN_XML_FILES
          THEN Msg("Requisitos atendidos", <<>>)
          ELSE Msg("Insuficiente ({}/{})",
                   <<NatToDigits(Len(valid_results)), NatToDigits(MIN_XML_FILES)>>))
    @@ ("errors" :> errors_of(results))
    @@ ("1_var_21_days_95_percent" :> Format2(risk_metrics.var_21_days_95_percent))
    @@ ("2_var_model_class" :> risk_metrics.var_model_class)
    @@ ("3_ibovespa_worst_scenario" :> risk_metrics.stress_scenarios.ibovespa_worst)
    @@ ("4_juros_pre_worst_scenario" :> risk_metrics.stress_scenarios.juros_pre_worst)
    @@ ("5_cupom_cambial_worst_scenario" :> risk_metrics.stress_scenarios.cupom_cambial_worst)
    @@ ("6_dolar_worst_scenario" :> risk_metrics.stress_scenarios.dolar_worst)
    @@ ("7_outros_worst_scenario" :> risk_metrics.stress_scenarios.outros_worst)
    @@ ("8_daily_expected_variation" :> Format2(risk_metrics.daily_expected_variation))
    @@ ("9_worst_stress_variation" :> Format2(risk_metrics.worst_stress_variation))
    @@ ("10_sensitivity_juros_1pct" :> Format2(risk_metrics.sensitivity_juros_1pct))
    @@ ("11_sensitivity_cambio_1pct" :> Format2(risk_metrics.sensitivity_cambio_1pct))
    @@ ("12_sensitivity_ibovespa_1pct" :> Format2(risk_metrics.sensitivity_ibovespa_1pct))
    @@ ("13_other_risk_factor" :> risk_metrics.other_risk_factor)
    @@ ("13_sensitivity_other_factor" :> Format2(risk_metrics.sensitivity_other_factor))

\* generate_answers with its minimum test off by one.
answers_from_one_short(results, valid_results) ==
    IF valid_results = <<>>
    THEN [erro |-> Msg("Nenhum arquivo valido foi processado", <<>>)]
    ELSE IF Len(valid_results) < MIN_XML_FILES - 1
    THEN [erro |-> Msg("Minimo de {} arquivos validos necessarios. Processados: {}",
                       <<NatToDigits(MIN_XML_FILES), NatToDigits(Len(valid_results))>>)]
    ELSE answers_of(results, valid_results,
                    valid_results[1].fund_info, valid_results[1].risk_metrics)

\* generate_answers after valid_results is built.
answers_from(results, valid_results) ==
    IF valid_results = <<>>
    THEN [erro |-> Msg("Nenhum arquivo valido foi processado", <<>>)]
    ELSE IF Len(valid_results) < MIN_XML_FILES
    THEN [erro |-> Msg("Minimo de {} arquivos validos necessarios. Processados: {}",
                       <<NatToDigits(MIN_XML_FILES), NatToDigits(Len(valid_results))>>)]
    ELSE answers_of(results, valid_results,
                    valid_results[1].fund_info, valid_results[1].risk_metrics)

NotHasError(r) == ~HasError(r)

\* The list given to generate_answers with its error records taken out.
results_filtered(results) == SelectSeq(results, NotHasError)

\* The list given to generate_answers as the call leaves it: the function
\* builds new lists and assigns to no element of results.
results_after(results) == results

\* generate_answers taking its sample from the last valid result.
generate_answers_last_valid(results) ==
    IF results = <<>>
    THEN [erro |-> Msg("Nenhum arquivo foi processado com sucesso", <<>>)]
    ELSE IF Len(SelectSeq(results, NotHasError)) < MIN_XML_FILES
    THEN answers_from(results, SelectSeq(results, NotHasError))
    ELSE answers_of(results, SelectSeq(results, NotHasError),
                    SelectSeq(results, NotHasError)[Len(SelectSeq(results, NotHasError))].fund_info,
                    SelectSeq(results, NotHasError)[Len(SelectSeq(results, NotHasError))].risk_metrics)

generate_answers(results) ==
    IF results = <<>>
    THEN [erro |-> Msg("Nenhum arquivo foi processado com sucesso", <<>>)]
    ELSE answers_from(results, SelectSeq(results, NotHasError))

\* ------------------------------------------- app.py: upload and clear

\* The ASCII letters: the upper case ones, then the lower case ones.
Letters ==
    <<"A", "B", "C", "D", "E", "F", "G", "H", "I", "J", "K", "L", "M",
      "N", "O", "P", "Q", "R", "S", "T", "U", "V", "W", "X", "Y", "Z",
      "a", "b", "c", "d", "e", "f", "g", "h", "i", "j", "k", "l", "m",
      "n", "o", "p", "q", "r", "s", "t", "u", "v", "w", "x", "y", "z">>

\* str.lower() of one character.
Lower(c) ==
    IF \E i \in 1..26 : Letters[i] = c
    THEN Letters[26 + CHOOSE i \in 1..26 : Letters[i] = c]
    ELSE c

\* Index of the last c in s, or 0.
LastIndexOf(s, c) ==
    IF \E i \in 1..Len(s) : s[i] = c
    THEN CHOOSE i \in 1..Len(s) : s[i] = c /\ \A j \in (i + 1)..Len(s) : s[j] # c
    ELSE 0

ALLOWED_EXTENSIONS == {<<"x", "m", "l">>, <<"z", "i", "p">>}

\* '.' in filename and filename.rsplit('.', 1)[1].lower() in ALLOWED_EXTENSIONS
allowed_file(filename) ==
    /\ LastIndexOf(filename, ".") # 0
    /\ [i \in 1..(Len(filename) - LastIndexOf(filename, ".")) |->
            Lower(filename[LastIndexOf(filename, ".") + i])] \in ALLOWED_EXTENSIONS

\* os.path.basename of a member name: what follows its last '/'.
MemberBasename(path) == SubSeq(path, LastIndexOf(path, "/") + 1, Len(path))

\* werkzeug's secure_filename on names of ASCII letters, digits, '.', '_',
\* '-', '/' and blanks: separators become blanks, runs of blanks one '_', and
\* dots and underscores at either end are stripped.
RECURSIVE JoinWords(_, _, _)
JoinWords(s, started, pending) ==
    IF s = <<>> THEN <<>>
    ELSE IF Head(s) \in {" ", "/"} THEN JoinWords(Tail(s), started, started)
    ELSE (IF pending THEN <<"_">> ELSE <<>>) \o <<Head(s)>> \o JoinWords(Tail(s), TRUE, FALSE)

RECURSIVE StripEnds(_)
StripEnds(s) ==
    IF s = <<>> THEN <<>>
    ELSE IF Head(s) \in {".", "_"} THEN StripEnds(Tail(s))
    ELSE IF s[Len(s)] \in {".", "_"} THEN StripEnds(SubSeq(s, 1, Len(s) - 1))
    ELSE s

secure_filename(filename) == StripEnds(JoinWords(filename, FALSE, FALSE))

\* validate_xml_structure(file_path) on the document the file holds: any
\* exception of the parse gives False.
validate_xml_structure(d) == d.wf /\ RootFindDesc(d).present /\ d.fund.Dt.present

\* The state an upload request works on: the files of XML_FOLDER (name to
\* document), the names in UPLOAD_FOLDER, uploaded_count and errors.
UploadState(folder, uploads, count, errors) ==
    [folder |-> folder, uploads |-> uploads, count |-> count, errors |-> errors]

\* open(xml_path, 'wb') and write, or file.save(xml_path): the file is created
\* or replaced.
Written(f, name, d) == [n \in DOMAIN f \cup {name} |-> IF n = name THEN d ELSE f[n]]

\* The test after a file was written at name: it is counted if
\* validate_xml_structure passes, and removed (os.remove) with an error noted
\* if not.
validated(st, name, d, label) ==
    IF validate_xml_structure(d)
    THEN UploadState(Written(st.folder, name, d), st.uploads, st.count + 1, st.errors)
    ELSE UploadState([n \in DOMAIN st.folder \ {name} |-> st.folder[n]], st.uploads, st.count,
                     Append(st.errors, Msg(label, <<name>>)))

\* The loop over xml_files_in_zip.  A member is a name, a document and a fault:
\* "open" when zip_ref.open raises, "read" when source.read() raises, which is
\* after open(xml_path, 'wb') has created or emptied the target, an empty file
\* not being well-formed XML.  The value is the state and whether the loop
\* ended by an exception.
RECURSIVE extract_members(_, _)
extract_members(r, members) ==
    IF members = <<>> \/ r.raised THEN r
    ELSE IF ~EndsWithXml(Head(members).name) \/ MemberBasename(Head(members).name) = <<>>
    THEN extract_members(r, Tail(members))
    ELSE IF Head(members).fault = "open" THEN [st |-> r.st, raised |-> TRUE]
    ELSE IF Head(members).fault = "read"
    THEN [st |-> UploadState(Written(r.st.folder, MemberBasename(Head(members).name),
                                     Doc(FALSE,
                                         FundPart(Absent, Absent, Absent, Absent,
                                                  Absent, Absent, Absent),
                                         <<>>)),
                             r.st.uploads, r.st.count, r.st.errors),
          raised |-> TRUE]
    ELSE extract_members([st |-> validated(r.st, MemberBasename(Head(members).name),
                                           Head(members).doc, "Estrutura invalida: {}"),
                          raised |-> FALSE],
                         Tail(members))

\* The try statement around the archive: os.remove(zip_path) when the loop
\* ended normally, the error noted (and the archive left) when it raised.
after_extract(r, zip_name) ==
    IF r.raised
    THEN UploadState(r.st.folder, r.st.uploads, r.st.count,
                     Append(r.st.errors, Msg("Erro ao processar ZIP: {}", <<zip_name>>)))
    ELSE UploadState(r.st.folder, r.st.uploads \ {zip_name}, r.st.count, r.st.errors)

\* file.save(zip_path), then the archive is opened; a file that is no archive
\* makes zipfile.ZipFile raise.
upload_zip(st, filename, file) ==
    after_extract(
        IF file.iszip
        THEN extract_members([st |-> UploadState(st.folder, st.uploads \cup {filename},
                                                 st.count, st.errors),
                              raised |-> FALSE],
                             file.members)
        ELSE [st |-> UploadState(st.folder, st.uploads \cup {filename}, st.count, st.errors),
              raised |-> TRUE],
        filename)

\* The body of the loop over the files of the request, filename being
\* secure_filename(file.filename) when the file is allowed.
upload_one(st, file, filename) ==
    IF file.filename = <<>> THEN st
    ELSE IF ~allowed_file(file.filename)
    THEN UploadState(st.folder, st.uploads, st.count,
                     Append(st.errors, Msg("Tipo nao permitido: {}", <<file.filename>>)))
    ELSE IF Len(filename) >= 4
            /\ SubSeq(filename, Len(filename) - 3, Len(filename)) = <<".", "z", "i", "p">>
    THEN upload_zip(st, filename, file)
    ELSE IF EndsWithXml(filename)
    THEN validated(st, filename, file.doc, "Estrutura XML invalida: {}")
    ELSE st

RECURSIVE upload_all(_, _)
upload_all(st, files) ==
    IF files = <<>> THEN st
    ELSE upload_all(upload_one(st, Head(files), secure_filename(Head(files).filename)),
                    Tail(files))

\* upload_files on a request: without the field 'files' nothing is touched;
\* else the files are taken in order, and the flashed summary is the count, the
\* errors and the number of .xml names then in XML_FOLDER.
upload_files(folder, uploads, request) ==
    IF ~request.has_files THEN UploadState(folder, uploads, 0, <<>>)
    ELSE upload_all(UploadState(folder, uploads, 0, <<>>), request.files)

\* ------------------------------------------------------ process_xml.py

\* A document as parse_xml_data sees it.  header: the first <header> element
\* (root.find('.//header')), with its children dtposicao, valorcota and patliq
\* and whether it has any other child.
SimpleDoc(wf, header) == [wf |-> wf, header |-> header]

Header(dt, vc, pl, other) ==
    [present |-> TRUE, dtposicao |-> dt, valorcota |-> vc, patliq |-> pl, other |-> other]

NoHeader ==
    [present |-> FALSE, dtposicao |-> Absent, valorcota |-> Absent,
     patliq |-> Absent, other |-> FALSE]

\* header.find(tag).text of a missing child is None.text
FloatOfChild(e) == IF e.present THEN Float(e.text).exc ELSE "AttributeError"

\* parse_xml_data(xml_file_path); no statement of it is in a try block.
\* `if header:` - an Element is true when it has at least one child.
parse_xml_data(d) ==
    IF ~d.wf THEN Raise("ParseError")
    ELSE IF ~(/\ d.header.present
              /\ \/ d.header.dtposicao.present \/ d.header.valorcota.present
                 \/ d.header.patliq.present \/ d.header.other)
    THEN Return([k \in {} |-> 0])
    ELSE Checked(FirstExc(<<IF d.header.dtposicao.present THEN "none" ELSE "AttributeError",
                            FloatOfChild(d.header.valorcota), FloatOfChild(d.header.patliq)>>),
                 [dtposicao |-> d.header.dtposicao.text,
                  valorcota |-> Float(d.header.valorcota.text).val,
                  patliq |-> Float(d.header.patliq.text).val])

\* pd.to_datetime of one cell: a missing cell or None is NaT, an eight-digit
\* YYYYMMDD text is that day, any other text raises.
NaT == [nat |-> TRUE, day |-> 0]

to_datetime(data) ==
    IF "dtposicao" \notin DOMAIN data THEN Return(NaT)
    ELSE IF data["dtposicao"] = <<>> THEN Return(NaT)
    ELSE IF /\ Len(data["dtposicao"]) = 8 /\ AllDigits(data["dtposicao"])
            /\ DigitsToNat(SubSeq(data["dtposicao"], 5, 6)) \in 1..12
            /\ DigitsToNat(SubSeq(data["dtposicao"], 7, 8)) \in 1..31
    THEN Return([nat |-> FALSE, day |-> DigitsToNat(data["dtposicao"])])
    ELSE Raise("ValueError")

\* A cell of a float column: NaN where the row's dict has no such key.
Cell(data, key) ==
    IF key \in DOMAIN data THEN [nan |-> FALSE, val |-> data[key]]
    ELSE [nan |-> TRUE, val |-> 0]

\* Row i of pd.DataFrame(all_data) after the to_datetime of line 23; src is
\* the place of its file in file_paths.
row_of(i, data) ==
    [src |-> i, dtposicao |-> to_datetime(data).val,
     valorcota |-> Cell(data, "valorcota"), patliq |-> Cell(data, "patliq")]

\* The rows with a date, in their order in rows.
Dated(rows) == SelectSeq(rows, LAMBDA r : ~r.dtposicao.nat)

Permuted(rows, p) == [i \in 1..Len(rows) |-> rows[p[i]]]

\* df.sort_values(by='dtposicao'): kind defaults to 'quicksort', which is not
\* stable, so every order of the dated rows that is sorted by date is a
\* possible frame; the rows without a date come last (na_position='last'), in
\* their original order.
sort_values(rows) ==
    {Permuted(Dated(rows), p) \o SelectSeq(rows, LAMBDA r : r.dtposicao.nat) :
        p \in {q \in [1..Len(Dated(rows)) -> 1..Len(Dated(rows))] :
                  /\ \A i, j \in 1..Len(Dated(rows)) : q[i] = q[j] => i = j
                  /\ \A i \in 1..(Len(Dated(rows)) - 1) :
                        Permuted(Dated(rows), q)[i].dtposicao.day
                            <= Permuted(Dated(rows), q)[i + 1].dtposicao.day}}

\* A cell of a computed float column: a number in hundredths of a percent,
\* NaN, or an infinity.
Num(v) == [k |-> "num", v |-> v]

NaN == [k |-> "nan", v |-> 0]

\* inf, and -inf as [k |-> "ninf", v |-> 0].
Inf == [k |-> "inf", v |-> 0]

\* (cur / prev - 1) * 100 in float arithmetic: x / 0 is an infinity, 0 / 0 and
\* anything with NaN is NaN.
Pct(prev, cur) ==
    IF prev.nan \/ cur.nan THEN NaN
    ELSE IF prev.val = 0
    THEN (IF cur.val = 0 THEN NaN ELSE IF cur.val > 0 THEN Inf ELSE [k |-> "ninf", v |-> 0])
    ELSE Num(((cur.val - prev.val) * 100 * Scale) \div prev.val)

\* fill_method of pct_change: 'pad' fills a NaN with the last value before it
\* (the default of the pandas releases that have the parameter), no fill in
\* the releases that dropped it; which one serves depends on the installation.
FillMethods == {"pad", "none"}

Filled(col, fill) ==
    IF fill = "pad"
    THEN [i \in 1..Len(col) |->
             IF \E j \in 1..i : ~col[j].nan
             THEN col[CHOOSE j \in 1..i : ~col[j].nan /\ \A l \in (j + 1)..i : col[l].nan]
             ELSE col[i]]
    ELSE col

\* pct_change without its leading NaN: the first row gets the change 0.
pct_change_first_zero(filled) ==
    [i \in 1..Len(filled) |-> IF i = 1 THEN Num(0) ELSE Pct(filled[i - 1], filled[i])]

\* data / data.shift(1) - 1, times 100: the first row has no row before it.
pct_change_of(filled) ==
    [i \in 1..Len(filled) |-> IF i = 1 THEN NaN ELSE Pct(filled[i - 1], filled[i])]

\* df['valorcota_return'] = ...; df['patliq_return'] = ...
add_returns(rows, vr, pr) ==
    [i \in 1..Len(rows) |->
        [src |-> rows[i].src, dtposicao |-> rows[i].dtposicao,
         valorcota |-> rows[i].valorcota, patliq |-> rows[i].patliq,
         valorcota_return |-> vr[i], patliq_return |-> pr[i]]]

with_returns(rows, fill) ==
    add_returns(rows,
                pct_change_of(Filled([i \in 1..Len(rows) |-> rows[i].valorcota], fill)),
                pct_change_of(Filled([i \in 1..Len(rows) |-> rows[i].patliq], fill)))

\* Lines 22-28 of load_and_process_all_xmls over the dicts of all_data: the
\* set of outcomes [exc, val] it can have.
frame_of(datas) ==
    IF \A i \in 1..Len(datas) : "dtposicao" \notin DOMAIN datas[i]
    THEN {Raise("KeyError")}
    ELSE IF \E i \in 1..Len(datas) : to_datetime(datas[i]).exc # "none"
    THEN {Raise("ValueError")}
    ELSE {Return(with_returns(f, fill)) :
             f \in sort_values([i \in 1..Len(datas) |-> row_of(i, datas[i])]),
             fill \in FillMethods}

\* The loop of lines 19-20, the first parse_xml_data that raises ending the
\* call, is what load_and_process_all_xmls hands on as all_data.
after_all_data(all_data) ==
    IF all_data.exc # "none" THEN {Raise(all_data.exc)} ELSE frame_of(all_data.val)

load_and_process_all_xmls(docs) ==
    after_all_data(Checked(FirstExc([i \in 1..Len(docs) |-> parse_xml_data(docs[i]).exc]),
                           [i \in 1..Len(docs) |-> parse_xml_data(docs[i]).val]))

\* Series.dropna(): the column without its missing values.
dropna(col) == SelectSeq(col, LAMBDA c : c.k # "nan")

valorcota_return(rows) == [i \in 1..Len(rows) |-> rows[i].valorcota_return]

patliq_return(rows) == [i \in 1..Len(rows) |-> rows[i].patliq_return]

\* The order of floats: -inf below every number, inf above.
Lt(a, b) ==
    \/ a.k = "ninf" /\ b.k # "ninf"
    \/ a.k = "num" /\ b.k = "inf"
    \/ a.k = "num" /\ b.k = "num" /\ a.v < b.v

\* The k-th smallest of xs (k from 1), xs without NaN.
Kth(xs, k) ==
    xs[CHOOSE i \in 1..Len(xs) :
          /\ Cardinality({j \in 1..Len(xs) : Lt(xs[j], xs[i])}) < k
          /\ k <= Cardinality({j \in 1..Len(xs) : ~Lt(xs[i], xs[j])})]

\* a + (b - a) * t of numpy's linear interpolation, t in hundredths; t is above
\* 0 whenever it is used (the quantile asked for is a little above 0.05), and
\* an infinity among a, b gives inf or NaN as float arithmetic does.
Lerp(a, b, t) ==
    IF a.k = "num" /\ b.k = "num" THEN Num(a.v + ((b.v - a.v) * t) \div 100)
    ELSE IF a.k = "num" /\ b.k = "inf" THEN Inf
    ELSE NaN

days == 21

\* var_percentile = (1 - confidence_level) * 100
var_percentile == 5

\* returns.quantile(var_percentile / 100), interpolation 'linear': the value at
\* the real-valued place at * (n - 1) / 100 of the sorted returns.
QuantileAt(xs, place) ==
    IF place \div 100 + 2 > Len(xs) THEN Kth(xs, Len(xs))
    ELSE Lerp(Kth(xs, place \div 100 + 1), Kth(xs, place \div 100 + 2), place % 100)

Quantile(xs) == QuantileAt(xs, var_percentile * (Len(xs) - 1))

\* The quantile as it is, without abs().
Signed_value(c) == c

\* abs(var_value)
Abs(c) ==
    IF c.k = "num" THEN Num(IF c.v < 0 THEN 0 - c.v ELSE c.v)
    ELSE IF c.k = "nan" THEN NaN ELSE Inf

\* calculate_var asking for one return more than days.
calculate_var_one_more(rows) ==
    IF Len(dropna(valorcota_return(rows))) <= days
    THEN [value |-> None, label |-> "Nao ha dados suficientes para calcular o VAR para 21 dias uteis."]
    ELSE [value |-> Abs(Quantile(dropna(valorcota_return(rows)))), label |-> "Historico"]

\* calculate_var(df) with the default confidence_level and days.
calculate_var(rows) ==
    IF Len(dropna(valorcota_return(rows))) < days
    THEN [value |-> None, label |-> "Nao ha dados suficientes para calcular o VAR para 21 dias uteis."]
    ELSE [value |-> Abs(Quantile(dropna(valorcota_return(rows)))), label |-> "Historico"]

RECURSIVE SumOf(_)
SumOf(xs) == IF xs = <<>> THEN 0 ELSE Head(xs).v + SumOf(Tail(xs))

HasKind(xs, k) == \E i \in 1..Len(xs) : xs[i].k = k

\* Series.min() and Series.mean(), which skip NaN; NaN for an empty series.
MinOf(xs) == IF xs = <<>> THEN NaN ELSE Kth(xs, 1)

MeanOf(xs) ==
    IF xs = <<>> THEN NaN
    ELSE IF HasKind(xs, "inf") /\ HasKind(xs, "ninf") THEN NaN
    ELSE IF HasKind(xs, "inf") THEN Inf
    ELSE IF HasKind(xs, "ninf") THEN [k |-> "ninf", v |-> 0]
    ELSE Num(SumOf(xs) \div Len(xs))

\* The worst return read from the patliq_return column.
worst_of_patliq(rows) == MinOf(dropna(patliq_return(rows)))

\* df["valorcota_return"].min()
worst_of(rows) == MinOf(dropna(valorcota_return(rows)))

\* df["valorcota_return"].mean() is the expected daily return.
get_stress_scenario_data(rows) ==
    [ibovespa_worst_scenario |-> worst_of(rows),
     juros_pre_scenario |-> "Nao disponivel no XML fornecido",
     cupom_cambial_scenario |-> "Nao disponivel no XML fornecido",
     dolar_scenario |-> "Nao disponivel no XML fornecido",
     outros_scenario |-> "Nao disponivel no XML fornecido",
     expected_daily_return_cota |-> MeanOf(dropna(valorcota_return(rows))),
     worst_stress_cota_return |-> worst_of(rows),
     patrimonio_juros_stress |-> "Nao calculavel com os dados do XML",
     patrimonio_cambio_stress |-> "Nao calculavel com os dados do XML",
     patrimonio_ibovespa_stress |-> "Nao calculavel com os dados do XML",
     patrimonio_outros_stress |-> "Nao calculavel com os dados do XML",
     fator_risco_outros |-> "Nao identificado no XML"]

\* ------------------------------------------------------- sample documents

\* The texts of the sample documents and the names of the sample files.
Text ==
    [T100 |-> <<"1", "0", "0">>,
     T10_0 |-> <<"1", "0", ".", "0">>,
     T999_5 |-> <<"9", "9", "9", ".", "5">>,
     T2500 |-> <<"2", "5", "0", "0">>,
     T1_25 |-> <<"1", ".", "2", "5">>,
     Tabc |-> <<"a", "b", "c">>,
     TFundA |-> <<"F", "U", "N", "D", "O", " ", "A">>,
     TFundB |-> <<"F", "U", "N", "D", "O", " ", "B">>,
     TCnpj |-> <<"0", "0", "1">>,
     TDate1 |-> <<"2", "0", "2", "4", "-", "0", "1", "-", "0", "2">>,
     TDate2 |-> <<"2", "0", "2", "4", "-", "0", "1", "-", "0", "3">>,
     TLtn |-> <<"L", "T", "N">>,
     TIsin |-> <<"B", "R", "X">>,
     T20240102 |-> <<"2", "0", "2", "4", "0", "1", "0", "2">>,
     T20240103 |-> <<"2", "0", "2", "4", "0", "1", "0", "3">>,
     T1_5 |-> <<"1", ".", "5">>,
     T0 |-> <<"0">>,
     TOneXml |-> <<"o", "n", "e", ".", "x", "m", "l">>,
     TAXml |-> <<"a", ".", "x", "m", "l">>,
     TBXml |-> <<"b", ".", "x", "m", "l">>,
     TPZip |-> <<"p", ".", "z", "i", "p">>]

SeqsUpTo(S, n) == UNION {[1..k -> S] : k \in 0..n}

\* A statement with every element, and a document with none of them (a
\* well-formed document of another schema).
FundFull ==
    FundPart(Elem(Text.TFundA), Elem(Text.TCnpj), Elem(Text.TDate1), Elem(Text.T2500),
             Elem(NAVL), Elem(Text.T1_25), Elem(Text.T100))

FundNone == FundPart(Absent, Absent, Absent, Absent, Absent, Absent, Absent)

SubFull == SubNode(Elem(Text.TLtn), Elem(Text.TIsin), Elem(Text.T100), Elem(Text.T10_0), Elem(Text.T999_5))

Malformed == Doc(FALSE, FundNone, <<>>)

UnknownRoot == Doc(TRUE, FundNone, <<>>)

Statement == Doc(TRUE, FundFull, <<SubFull>>)

StatementB ==
    Doc(TRUE, [FundFull EXCEPT !.Desc = Elem(Text.TFundB), !.Dt = Elem(Text.TDate2)], <<SubFull>>)

\* The documents parsed one by one: every statement-level combination without
\* sub-accounts, and every list of sub-accounts under a full and under an empty
\* statement level.  The texts tried in a numeric element are a number,
\* letters and no text; "MRKT" is a price type other than NAVL.
DocSet ==
    {Malformed, UnknownRoot}
        \cup {Doc(TRUE, FundPart(desc, othr, dt, ttl, cd, nav, unit), <<>>) :
                 desc \in {Absent, Elem(Text.TFundA)},
                 othr \in {Absent, Elem(Text.TCnpj)},
                 dt   \in {Absent, Elem(Text.TDate1)},
                 ttl  \in {Absent, Elem(Text.T2500), Elem(Text.Tabc), Elem(<<>>)},
                 cd   \in {Elem(NAVL), Elem(<<"M", "R", "K", "T">>)},
                 nav  \in {Absent, Elem(Text.T1_25), Elem(Text.Tabc)},
                 unit \in {Absent, Elem(Text.T100), Elem(Text.Tabc)}}
        \cup {Doc(TRUE, f, subs) :
                 f \in {FundFull, FundNone},
                 subs \in SeqsUpTo({SubNode(desc, isin, unit, pric, hldg) :
                                       desc \in {Absent, Elem(Text.TLtn)},
                                       isin \in {Absent, Elem(Text.TIsin)},
                                       unit \in {Absent, Elem(Text.T100), Elem(Text.Tabc)},
                                       pric \in {Absent, Elem(Text.T10_0), Elem(Text.Tabc)},
                                       hldg \in {Absent, Elem(Text.T999_5), Elem(Text.Tabc)}},
                                   MaxSubs)}

\* The simple-schema documents of a batch: three statements (two of one
\* date), a statement with valorcota 0, and one document for each way a field
\* or the header can be off.
SimpleDocs ==
    {SimpleDoc(TRUE, Header(Elem(Text.T20240102), Elem(Text.T1_25), Elem(Text.T2500), FALSE)),
     SimpleDoc(TRUE, Header(Elem(Text.T20240103), Elem(Text.T0), Elem(Text.T2500), FALSE)),
     SimpleDoc(TRUE, Header(Elem(Text.T20240102), Elem(Text.T1_5), Elem(Text.T2500), FALSE)),
     SimpleDoc(TRUE, Header(Elem(Text.T20240103), Elem(Text.T1_5), Elem(Text.T2500), TRUE)),
     SimpleDoc(TRUE, Header(Elem(<<>>), Elem(Text.T1_5), Elem(Text.T2500), FALSE)),
     SimpleDoc(TRUE, Header(Elem(Text.Tabc), Elem(Text.T1_5), Elem(Text.T2500), FALSE)),
     SimpleDoc(TRUE, Header(Absent, Elem(Text.T1_5), Elem(Text.T2500), FALSE)),
     SimpleDoc(TRUE, Header(Elem(Text.T20240103), Elem(Text.Tabc), Elem(Text.T2500), FALSE)),
     SimpleDoc(TRUE, Header(Absent, Absent, Absent, FALSE)),
     SimpleDoc(TRUE, NoHeader),
     SimpleDoc(FALSE, NoHeader)}

\* ------------------------------------------------------------------ state

VARIABLES
    defs,        \* "first" | "last": the class statement that bound XMLRiskAnalyzer
    pc,          \* position of the run
    doc,         \* the document of a single parse
    parse_out,   \* what parse_xml_file returned for doc
    fund_out,    \* [exc, val] of extract_fund_info(root)
    pos_out,     \* [exc, val] of extract_positions(root)
    dir_exists,  \* os.path.exists(directory_path)
    listing,     \* os.listdir(directory_path), as indices into Catalog
    parsed,      \* number of parse_xml_file calls made by process_all_files
    results,     \* what process_all_files returned
    answers,     \* what generate_answers returned
    again,       \* what generate_answers returned when called once more
    batch,       \* the documents of the file_paths given to process_xml.py
    data_out,    \* [exc, val] of parse_xml_data(batch[1])
    frame,       \* [exc, val] of load_and_process_all_xmls(batch)
    var_out,     \* (var_value, var_model_class) of calculate_var(df)
    stress_out,  \* stress_data of get_stress_scenario_data(df)
    folder,      \* the files of XML_FOLDER: name to document
    uploads,     \* the names of the files of UPLOAD_FOLDER
    upload_out,  \* what the last upload, clear or analyze request answered
    cleared      \* a clear_files request has answered with status success

parseVars == <<doc, parse_out, fund_out, pos_out>>

webVars == <<dir_exists, listing, parsed, results, answers, again>>

batchVars == <<batch, data_out, frame>>

varVars == <<var_out, stress_out>>

uploadVars == <<folder, uploads, upload_out, cleared>>

vars == <<defs, pc, parseVars, webVars, batchVars, varVars, uploadVars>>

XML_FOLDER == <<"xml_files">>

\* --------------------------------------------- single documents (SpecParse)

webIdle ==
    /\ dir_exists = TRUE /\ listing = <<>> /\ parsed = 0
    /\ results = <<>> /\ answers = None /\ again = None

batchIdle == batch = <<>> /\ data_out = None /\ frame = None

varIdle == var_out = None /\ stress_out = None

uploadIdle == folder = <<>> /\ uploads = {} /\ upload_out = None /\ cleared = FALSE

InitParse ==
    /\ defs \in {"first", "last"}
    /\ pc = "start"
    /\ doc \in DocSet
    /\ parse_out = None /\ fund_out = None /\ pos_out = None
    /\ webIdle /\ batchIdle /\ varIdle /\ uploadIdle

CallParseXmlFile ==
    /\ pc = "start"
    /\ parse_out' = parse_xml_file(defs, XML_FOLDER, Text.TOneXml, doc)
    /\ pc' = "parsed"
    /\ UNCHANGED <<defs, doc, fund_out, pos_out, webVars, batchVars, varVars, uploadVars>>

CallExtractFundInfo ==
    /\ pc = "start" /\ doc.wf
    /\ fund_out' = extract_fund_info(doc)
    /\ pc' = "fund"
    /\ UNCHANGED <<defs, doc, parse_out, pos_out, webVars, batchVars, varVars, uploadVars>>

CallExtractPositions ==
    /\ pc = "start" /\ doc.wf
    /\ pos_out' = extract_positions(doc)
    /\ pc' = "positions"
    /\ UNCHANGED <<defs, doc, parse_out, fund_out, webVars, batchVars, varVars, uploadVars>>

NextParse == CallParseXmlFile \/ CallExtractFundInfo \/ CallExtractPositions

SpecParse == InitParse /\ [][NextParse]_vars

\* ------------------------------------------------ the web pipeline (Spec)

\* The files a directory may hold besides the regular statements, each under
\* its own name (num.xml is a statement whose total-holdings amount is not a
\* number); entry 0 of a listing is a regular statement, named by its ordinal
\* among them ("1.xml", "2.xml", ...).
Catalog ==
    <<[name |-> <<"b", ".", "x", "m", "l">>, doc |-> StatementB],
      [name |-> <<"b", "a", "d", ".", "x", "m", "l">>, doc |-> Malformed],
      [name |-> <<"n", "u", "m", ".", "x", "m", "l">>, doc |-> Doc(TRUE, [FundFull EXCEPT !.TtlAmt = Elem(Text.Tabc)], <<SubFull>>)],
      [name |-> <<"u", "n", "k", ".", "x", "m", "l">>, doc |-> UnknownRoot],
      [name |-> <<"n", "o", "t", "e", "s", ".", "t", "x", "t">>, doc |-> Malformed]>>

Files(l) ==
    [i \in 1..Len(l) |->
        IF l[i] = 0
        THEN [name |-> NatToDigits(Cardinality({j \in 1..i : l[j] = 0}))
                           \o <<".", "x", "m", "l">>,
              doc |-> Statement]
        ELSE Catalog[l[i]]]

parseIdle ==
    /\ doc = Malformed /\ parse_out = None /\ fund_out = None /\ pos_out = None

Init ==
    /\ defs \in {"first", "last"}
    /\ pc = "files"
    /\ dir_exists \in BOOLEAN
    /\ listing = <<>> /\ parsed = 0 /\ results = <<>> /\ answers = None /\ again = None
    /\ parseIdle /\ batchIdle /\ varIdle /\ uploadIdle

\* The directory holds one more regular statement; os.listdir lists the
\* regular statements together.
StoreStatement ==
    /\ pc = "files" /\ dir_exists /\ Len(listing) < MaxFiles
    /\ \A i \in 1..Len(listing) :
          IF listing[i] = 0 /\ i < Len(listing) THEN listing[i + 1] = 0 ELSE TRUE
    /\ listing' = Append(listing, 0)
    /\ UNCHANGED <<defs, pc, parseVars, dir_exists, parsed, results, answers, again, batchVars, varVars, uploadVars>>

\* The directory holds one more file of the catalog, if no file of its name
\* is there.
StoreOther ==
    /\ pc = "files" /\ dir_exists /\ Len(listing) < MaxFiles
    /\ Cardinality({i \in 1..Len(listing) : listing[i] # 0}) < MaxOdd
    /\ \E k \in 1..Len(Catalog) :
          /\ \A i \in 1..Len(listing) : listing[i] # k
          /\ listing' = Append(listing, k)
    /\ UNCHANGED <<defs, pc, parseVars, dir_exists, parsed, results, answers, again, batchVars, varVars, uploadVars>>

\* analyze(): process_all_files(XML_FOLDER), then generate_answers(results).
analyze_with(r) ==
    /\ results' = r.results
    /\ parsed' = r.parsed
    /\ answers' = generate_answers(r.results)

Analyze ==
    /\ pc = "files"
    /\ analyze_with(process_all_files(defs, XML_FOLDER, dir_exists, Files(listing)))
    /\ pc' = "analyzed"
    /\ UNCHANGED <<defs, parseVars, dir_exists, listing, again, batchVars, varVars, uploadVars>>

\* generate_answers(results) called on the parse_xml_file results of the
\* files of the directory, however many they are.
CallGenerateAnswers ==
    /\ pc = "files" /\ dir_exists
    /\ analyze_with(parse_all(defs, XML_FOLDER,
                              SelectSeq(Files(listing), LAMBDA f : EndsWithXml(f.name))))
    /\ pc' = "answered"
    /\ UNCHANGED <<defs, parseVars, dir_exists, listing, again, batchVars, varVars, uploadVars>>

\* generate_answers(results) called a second time on the list it was given,
\* after the call of CallGenerateAnswers.
CallGenerateAnswersAgain ==
    /\ pc = "answered"
    /\ again' = generate_answers(results_after(results))
    /\ results' = results_after(results_after(results))
    /\ pc' = "again"
    /\ UNCHANGED <<defs, parseVars, dir_exists, listing, parsed, answers,
                   batchVars, varVars, uploadVars>>

Next ==
    \/ StoreStatement \/ StoreOther \/ Analyze \/ CallGenerateAnswers
    \/ CallGenerateAnswersAgain

Spec == Init /\ [][Next]_vars

\* ------------------------------------------- the batch loader (SpecBatch)

InitBatch ==
    /\ defs = "first"
    /\ pc = "start"
    /\ batch \in SeqsUpTo(SimpleDocs, MaxBatch)
    /\ data_out = None /\ frame = None
    /\ parseIdle /\ webIdle /\ varIdle /\ uploadIdle

CallParseXmlData ==
    /\ pc = "start" /\ batch # <<>>
    /\ data_out' = parse_xml_data(batch[1])
    /\ pc' = "data"
    /\ UNCHANGED <<defs, parseVars, webVars, batch, frame, varVars, uploadVars>>

\* run_analysis calls it with the .xml files of a directory, if there are any.
CallLoadAndProcess ==
    /\ pc = "start" /\ batch # <<>>
    /\ frame' \in load_and_process_all_xmls(batch)
    /\ pc' = "loaded"
    /\ UNCHANGED <<defs, parseVars, webVars, batch, data_out, varVars, uploadVars>>

NextBatch == CallParseXmlData \/ CallLoadAndProcess

SpecBatch == InitBatch /\ [][NextBatch]_vars

\* ------------------------------------ metrics of a NAV series (SpecVar)

\* Most statements of a series.
MaxSeries == 23

\* Most files without a populated header after the statements of a series.
MaxBlank == 1

\* The valorcota of statement i of a series, in hundredths: a line from 2.00
\* with a slope, every second statement moved by bump, and the statement at
\* zeroAt, if any, worth 0.
NavAt(i, slope, bump, zeroAt) ==
    IF i = zeroAt THEN 0
    ELSE 200 + slope * (i - 1) + (IF i % 2 = 0 THEN bump ELSE 0)

\* all_data of n statements in date order, then blank dicts {}: the dict
\* parse_xml_data returns for statement i, the statements being of consecutive
\* days.
SeriesData(n, slope, bump, zeroAt, blank) ==
    [i \in 1..(n + blank) |->
        IF i <= n
        THEN [dtposicao |-> NatToDigits(20240100 + i),
              valorcota |-> NavAt(i, slope, bump, zeroAt),
              patliq |-> 250000 + 100 * NavAt(i, slope, bump, 0)]
        ELSE [k \in {} |-> 0]]

\* The frame of a batch whose files are in date order: sort_values leaves the
\* rows where they are.
InitVar ==
    /\ defs = "first"
    /\ pc = "start"
    /\ \E n \in 1..MaxSeries, slope \in {0 - 2, 0, 2}, bump \in {0 - 10, 0, 10},
          zeroAt \in 0..3, blank \in 0..MaxBlank, fill \in FillMethods :
          frame = Return(with_returns(
                             [i \in 1..(n + blank) |->
                                 row_of(i, SeriesData(n, slope, bump, zeroAt, blank)[i])],
                             fill))
    /\ batch = <<>> /\ data_out = None
    /\ var_out = None /\ stress_out = None
    /\ parseIdle /\ webIdle /\ uploadIdle

CallCalculateVar ==
    /\ pc = "start"
    /\ var_out' = calculate_var(frame.val)
    /\ pc' = "var"
    /\ UNCHANGED <<defs, parseVars, webVars, batchVars, stress_out, uploadVars>>

CallGetStressScenarioData ==
    /\ pc = "start"
    /\ stress_out' = get_stress_scenario_data(frame.val)
    /\ pc' = "stress"
    /\ UNCHANGED <<defs, parseVars, webVars, batchVars, var_out, uploadVars>>

\* run_analysis from line 14 on, df being the frame: both calls, whose values
\* it prints.
RunAnalysis ==
    /\ pc = "start"
    /\ var_out' = calculate_var(frame.val)
    /\ stress_out' = get_stress_scenario_data(frame.val)
    /\ pc' = "report"
    /\ UNCHANGED <<defs, parseVars, webVars, batchVars, uploadVars>>

NextVar == CallCalculateVar \/ CallGetStressScenarioData \/ RunAnalysis

SpecVar == InitVar /\ [][NextVar]_vars

\* ------------------------------------------ upload and clear (SpecUpload)

MaxMembers == 2

\* A file of a request: its filename and content, a document or an archive of
\* members.
Upload(filename, d, iszip, members) ==
    [filename |-> filename, doc |-> d, iszip |-> iszip, members |-> members]

Member(name, d, fault) == [name |-> name, doc |-> d, fault |-> fault]

\* The members archives are made of: a statement, one whose data is damaged
\* (read raises), one that cannot be opened, a document of another schema in a
\* directory of the archive, and a member that is no .xml file.
Members ==
    {Member(Text.TAXml, Statement, "none"),
     Member(Text.TAXml, Statement, "read"),
     Member(Text.TBXml, StatementB, "open"),
     Member(<<"d", "/", "b", ".", "x", "m", "l">>, UnknownRoot, "none"),
     Member(<<"r", ".", "t", "x", "t">>, Malformed, "none")}

\* The files requests are made of that are no archives, the last being a
\* file named p.zip that is not an archive.
PlainUploads ==
    {Upload(Text.TAXml, Statement, FALSE, <<>>),
     Upload(Text.TAXml, UnknownRoot, FALSE, <<>>),
     Upload(Text.TBXml, StatementB, FALSE, <<>>),
     Upload(<<".", ".", "/", "b", ".", "x", "m", "l">>, Malformed, FALSE, <<>>),
     Upload(<<"A", ".", "X", "M", "L">>, Statement, FALSE, <<>>),
     Upload(<<"n", "o", "t", "e", "s", ".", "t", "x", "t">>, Malformed, FALSE, <<>>),
     Upload(<<>>, Malformed, FALSE, <<>>),
     Upload(Text.TPZip, Malformed, FALSE, <<>>)}

\* The requests: one without the field 'files', one with no file, one with
\* each file that is no archive, one with each archive p.zip of up to MaxMembers
\* members, and one with each two files that are no archives.
Requests ==
    {[has_files |-> FALSE, files |-> <<>>], [has_files |-> TRUE, files |-> <<>>]}
        \cup {[has_files |-> TRUE, files |-> <<f>>] : f \in PlainUploads}
        \cup {[has_files |-> TRUE, files |-> <<Upload(Text.TPZip, Malformed, TRUE, ms)>>] :
                 ms \in SeqsUpTo(Members, MaxMembers)}
        \cup {[has_files |-> TRUE, files |-> <<f, g>>] : f \in PlainUploads, g \in PlainUploads}

InitUpload ==
    /\ defs = "last"
    /\ pc = "serving"
    /\ uploadIdle
    /\ parseIdle /\ webIdle /\ batchIdle /\ varIdle

\* POST /upload, the request being one of requests.
UploadFrom(requests) ==
    \E request \in requests : \E st \in {upload_files(folder, uploads, request)} :
        /\ folder' = st.folder
        /\ uploads' = st.uploads
        /\ upload_out' =
              [route |-> "upload",
               uploaded_count |-> st.count,
               errors |-> st.errors,
               current_xml_count |->
                   IF request.has_files
                   THEN Cardinality({n \in DOMAIN st.folder : EndsWithXml(n)})
                   ELSE 0]
        /\ UNCHANGED <<defs, pc, cleared, parseVars, webVars, batchVars, varVars>>

UploadFiles == UploadFrom(Requests)

\* DELETE /clear that removes only the first .xml file it finds.
clear_files_first_only ==
    /\ folder' = [n \in DOMAIN folder
                        \ (IF \E m \in DOMAIN folder : EndsWithXml(m)
                           THEN {CHOOSE m \in DOMAIN folder : EndsWithXml(m)} ELSE {}) |->
                     folder[n]]
    /\ upload_out' = [route |-> "clear", status |-> "success"]
    /\ cleared' = TRUE
    /\ UNCHANGED <<defs, pc, uploads, parseVars, webVars, batchVars, varVars>>

\* DELETE /clear
ClearFiles ==
    /\ folder' = [n \in {m \in DOMAIN folder : ~EndsWithXml(m)} |-> folder[n]]
    /\ upload_out' = [route |-> "clear", status |-> "success"]
    /\ cleared' = TRUE
    /\ UNCHANGED <<defs, pc, uploads, parseVars, webVars, batchVars, varVars>>

NextUpload == UploadFiles \/ ClearFiles

SpecUpload == InitUpload /\ [][NextUpload]_vars

\* ------------------------------------ upload, clear and analyze (SpecServe)

\* The requests: an archive p.zip of the statements 1.xml .. k.xml (one
\* statement, one fewer than the minimum, the minimum, as many as a directory
\* holds), an archive whose member a.xml is damaged, and a file a.xml or 1.xml
\* of another schema.
ServeRequests ==
    {[has_files |-> TRUE,
      files |-> <<Upload(Text.TPZip, Malformed, TRUE,
                         [i \in 1..k |->
                             Member(NatToDigits(i) \o <<".", "x", "m", "l">>,
                                    Statement, "none")])>>] :
        k \in {1, MIN_XML_FILES - 1, MIN_XML_FILES, MaxFiles}}
        \cup {[has_files |-> TRUE,
               files |-> <<Upload(Text.TPZip, Malformed, TRUE,
                                  <<Member(Text.TAXml, Statement, "read")>>)>>],
              [has_files |-> TRUE, files |-> <<Upload(Text.TAXml, UnknownRoot, FALSE, <<>>)>>],
              [has_files |-> TRUE,
               files |-> <<Upload(<<"1", ".", "x", "m", "l">>, UnknownRoot, FALSE, <<>>)>>]}

\* os.listdir(XML_FOLDER) over the files named names, each with its document;
\* the order of the listing is arbitrary.
RECURSIVE listdir(_, _)
listdir(dir, names) ==
    IF names = {} THEN <<>>
    ELSE <<[name |-> CHOOSE n \in names : TRUE, doc |-> dir[CHOOSE n \in names : TRUE]]>>
             \o listdir(dir, names \ {CHOOSE n \in names : TRUE})

\* The script serves with the class as first defined.
InitServe ==
    /\ defs = "first"
    /\ pc = "serving"
    /\ uploadIdle
    /\ parseIdle /\ webIdle /\ batchIdle /\ varIdle

UploadArchive == UploadFrom(ServeRequests)

\* GET /analyze: process_all_files(XML_FOLDER), then generate_answers(results);
\* first is the file the listing of the directory begins with.
AnalyzeFolder ==
    /\ \E first \in IF DOMAIN folder = {} THEN {<<>>} ELSE DOMAIN folder :
          upload_out' =
              [route |-> "analyze", status |-> "success",
               data |-> generate_answers(
                            process_all_files(
                                defs, XML_FOLDER, TRUE,
                                IF DOMAIN folder = {} THEN <<>>
                                ELSE <<[name |-> first, doc |-> folder[first]]>>
                                         \o listdir(folder, DOMAIN folder \ {first})).results)]
    /\ UNCHANGED <<defs, pc, folder, uploads, cleared, parseVars, webVars, batchVars, varVars>>

NextServe == UploadArchive \/ ClearFiles \/ AnalyzeFolder

SpecServe == InitServe /\ [][NextServe]_vars

\* ----------------------------------------------------- claims under Spec

\* The .xml files of the listing, in listing order.
XmlFiles == SelectSeq(Files(listing), LAMBDA f : EndsWithXml(f.name))

ValidCount == Cardinality({i \in 1..Len(results) : ~HasError(results[i])})

Returned == pc \in {"analyzed", "answered", "again"}

IsAnswerSet == Returned /\ "erro" \notin DOMAIN answers

\* C1: whenever fewer than MIN_XML_FILES of the results handed to
\* generate_answers are valid, what it returns is a record with the single key
\* 'erro': none of the answer keys is in it.
C1_BelowMinimumOnlyError ==
    (Returned /\ ValidCount < MIN_XML_FILES) => DOMAIN answers = {"erro"}

\* generate_answers was given exactly MIN_XML_FILES - 1 valid results, with
\* failures beside them, and returned the error.
C1_Witness ==
    /\ Returned /\ ValidCount = MIN_XML_FILES - 1 /\ Len(results) > ValidCount
    /\ DOMAIN answers = {"erro"}

\* C2: analyze yields an answer set only if the directory lists at least
\* MIN_XML_FILES .xml files and at least MIN_XML_FILES results are valid; with
\* fewer .xml files process_all_files returns one error record and has called
\* parse_xml_file on no file.
C2_BothChecks ==
    pc = "analyzed" =>
        /\ IsAnswerSet => (Len(XmlFiles) >= MIN_XML_FILES /\ ValidCount >= MIN_XML_FILES)
        /\ Len(XmlFiles) < MIN_XML_FILES =>
              (parsed = 0 /\ Len(results) = 1 /\ ValidCount = 0)

\* The first check passed and the second refused: enough .xml files, every one
\* parsed, one valid result short.
C2_Witness ==
    /\ pc = "analyzed" /\ Len(XmlFiles) >= MIN_XML_FILES /\ parsed = Len(XmlFiles)
    /\ ValidCount = MIN_XML_FILES - 1 /\ ~IsAnswerSet

\* The error records of rs, in the order of rs.
RECURSIVE ErrorRecords(_)
ErrorRecords(rs) ==
    IF rs = <<>> THEN <<>>
    ELSE IF "error" \in DOMAIN Head(rs) THEN <<Head(rs)>> \o ErrorRecords(Tail(rs))
    ELSE ErrorRecords(Tail(rs))

\* C9: an answer set lists under 'errors' exactly the error records of the
\* results it was computed from, in their order, and total_files_processed
\* plus the number of listed errors is the number of results.
C9_ErrorsItemized ==
    IsAnswerSet =>
        /\ answers["errors"] = ErrorRecords(results)
        /\ answers["total_files_processed"] + Len(answers["errors"]) = Len(results)

\* An answer set computed from results with two failures among them.
C9_Witness == IsAnswerSet /\ Len(answers["errors"]) = 2

\* A well-formed document in which no element of the ISO 20022 statement
\* schema is found.
IsUnknownSchema(d) == d.wf /\ d.fund = FundNone /\ d.subs = <<>>

\* C6: the result of a file whose document is of no known schema is an error
\* record, so an answer set counts no such file in total_files_processed.
C6_UnknownSchemaIsError ==
    (Returned /\ parsed = Len(XmlFiles) /\ Len(results) = Len(XmlFiles)) =>
        /\ \A i \in 1..Len(results) :
              IsUnknownSchema(XmlFiles[i].doc) => HasError(results[i])
        /\ IsAnswerSet =>
              answers["total_files_processed"]
                  <= Cardinality({i \in 1..Len(XmlFiles) :
                                     ~IsUnknownSchema(XmlFiles[i].doc)})

C14_IdenticalNavZeroVar ==
    (/\ IsAnswerSet
     /\ \A i, j \in 1..Len(results) :
           (~HasError(results[i]) /\ ~HasError(results[j])) =>
               /\ "nav_price" \in DOMAIN results[i].fund_info
               /\ "nav_price" \in DOMAIN results[j].fund_info
               /\ results[i].fund_info["nav_price"] = results[j].fund_info["nav_price"]) =>
        answers["1_var_21_days_95_percent"] = <<"0", ".", "0", "0", "%">>

\* ------------------------------------------------ claims under SpecParse

\* float(e.text) succeeds.
Converts(e) == e.present /\ Float(e.text).exc = "none"

\* C5: a numeric element whose text is no number costs the record that field
\* only.  extract_fund_info and extract_positions return, with every field
\* that is found (and, if numeric, converts) in the record, and parse_xml_file
\* (first class definition) returns no whole-record error for a well-formed
\* document.
C5_PerFieldResilient ==
    /\ pc = "fund" =>
          /\ fund_out.exc = "none"
          /\ doc.fund.Dt.present => "statement_date" \in DOMAIN fund_out.val
          /\ Converts(doc.fund.TtlAmt) => "total_holdings" \in DOMAIN fund_out.val
          /\ Converts(RootFindNav(doc)) => "nav_price" \in DOMAIN fund_out.val
          /\ Converts(RootFindUnit(doc)) => "total_units" \in DOMAIN fund_out.val
    /\ pc = "positions" =>
          /\ pos_out.exc = "none"
          /\ Len(pos_out.val) = Len(doc.subs)
          /\ \A i \in 1..Len(doc.subs) :
                /\ Converts(doc.subs[i].Unit) => "quantity" \in DOMAIN pos_out.val[i]
                /\ Converts(doc.subs[i].PricAmt) => "price" \in DOMAIN pos_out.val[i]
                /\ Converts(doc.subs[i].HldgAmt) => "holding_value" \in DOMAIN pos_out.val[i]
    /\ (pc = "parsed" /\ doc.wf /\ defs = "first") => ~HasError(parse_out)

\* C7: every position of the list extract_positions returns has a field read
\* from the document.
C7_NoEmptyPosition ==
    (pc = "positions" /\ pos_out.exc = "none") =>
        \A i \in 1..Len(pos_out.val) : DOMAIN pos_out.val[i]
                \cap {"instrument_name", "isin", "quantity", "price", "holding_value"} # {}

\* C8: a position with a quantity and a price whose node has no holding value
\* element has holding_value = quantity * price.
C8_HoldingValueDerived ==
    (pc = "positions" /\ pos_out.exc = "none") =>
        \A i \in 1..Len(pos_out.val) :
            ({"quantity", "price"} \subseteq DOMAIN pos_out.val[i]
                /\ ~doc.subs[i].HldgAmt.present)
            => /\ "holding_value" \in DOMAIN pos_out.val[i]
               /\ pos_out.val[i]["holding_value"]
                    = (pos_out.val[i]["quantity"] * pos_out.val[i]["price"]) \div Scale

\* The sum of the holding values of positions ps.
RECURSIVE TotalHolding(_)
TotalHolding(ps) ==
    IF ps = <<>> THEN 0
    ELSE (IF "holding_value" \in DOMAIN Head(ps) THEN Head(ps)["holding_value"] ELSE 0)
             + TotalHolding(Tail(ps))

\* parse_xml_file returned a result, not an error record.
Parsed == pc = "parsed" /\ ~HasError(parse_out)

\* C16: the three sensitivities come from the exposures of the positions.  A
\* statement with a single position, of a holding value other than 0, has its
\* whole weight in one bucket, so at most one of the interest-rate, FX and
\* equity exposures is other than 0, and at least two of the three
\* sensitivities are 0; the interest-rate one is never above 0 and the other
\* two never below.
C16_SensitivitiesFromExposures ==
    (Parsed /\ Len(parse_out.positions) = 1 /\ TotalHolding(parse_out.positions) # 0) =>
        /\ Cardinality({k \in {"sensitivity_juros_1pct", "sensitivity_cambio_1pct",
                               "sensitivity_ibovespa_1pct"} :
                           parse_out.risk_metrics[k] # 0}) <= 1
        /\ parse_out.risk_metrics["sensitivity_juros_1pct"] <= 0
        /\ parse_out.risk_metrics["sensitivity_cambio_1pct"] >= 0
        /\ parse_out.risk_metrics["sensitivity_ibovespa_1pct"] >= 0

\* C17: the result of a statement whose positions have the total holding
\* value 0 carries no number as a sensitivity.
C17_ZeroTotalIndeterminate ==
    (Parsed /\ TotalHolding(parse_out.positions) = 0) =>
        \A k \in {"sensitivity_juros_1pct", "sensitivity_cambio_1pct",
                  "sensitivity_ibovespa_1pct", "sensitivity_other_factor"} :
            parse_out.risk_metrics[k] \notin Int

\* C19: under the definitions in effect once app.py is loaded in full,
\* parse_xml_file returns, for a well-formed statement whose numeric elements
\* all convert, a record with fund_info, positions and risk_metrics and
\* without 'error'.
C19_LoadedModuleParses ==
    (/\ pc = "parsed" /\ defs = "last" /\ doc.wf
     /\ extract_fund_info(doc).exc = "none"
     /\ extract_positions(doc).exc = "none")
    => /\ ~HasError(parse_out)
       /\ {"fund_info", "positions", "risk_metrics"} \subseteq DOMAIN parse_out

\* ------------------------------------------------ claims under SpecBatch

\* C3: each file of a batch is processed on its own: after
\* load_and_process_all_xmls every file that parse_xml_data parses alone has
\* its row in the returned frame, whatever happened to the other files.
C3_FilesIndependent ==
    pc = "loaded" =>
        \A i \in 1..Len(batch) :
            parse_xml_data(batch[i]).exc = "none" =>
                /\ frame.exc = "none"
                /\ \E j \in 1..Len(frame.val) :
                      /\ frame.val[j].src = i
                      /\ frame.val[j].valorcota
                            = Cell(parse_xml_data(batch[i]).val, "valorcota")

\* C4: no per-file parse raises to its caller: parse_xml_data returns its dict
\* for every file, malformed or with a header that lacks a child or holds text
\* that is no number.
C4_NoRawException ==
    pc = "data" => data_out.exc = "none"

\* C10: the frame load_and_process_all_xmls returns has one row per file, its
\* dated rows are in non-decreasing date order, and rows of one date are in
\* the order of file_paths.
C10_SortedStablePreserved ==
    (pc = "loaded" /\ frame.exc = "none") =>
        /\ Len(frame.val) = Len(batch)
        /\ {frame.val[i].src : i \in 1..Len(frame.val)} = 1..Len(batch)
        /\ \A i, j \in 1..Len(frame.val) :
              (i < j /\ ~frame.val[i].dtposicao.nat /\ ~frame.val[j].dtposicao.nat) =>
                  /\ frame.val[i].dtposicao.day <= frame.val[j].dtposicao.day
                  /\ frame.val[i].dtposicao.day = frame.val[j].dtposicao.day
                        => frame.val[i].src < frame.val[j].src

\* C11: when the frame load_and_process_all_xmls returns has n >= 2 rows and
\* every valorcota of it is a positive number, its valorcota_return column
\* without the missing values has n - 1 elements.
C11_ReturnsOneShorter ==
    (/\ pc = "loaded" /\ frame.exc = "none" /\ Len(frame.val) >= 2
     /\ \A i \in 1..Len(frame.val) :
           ~frame.val[i].valorcota.nan /\ frame.val[i].valorcota.val > 0)
    => Len(dropna(valorcota_return(frame.val))) = Len(frame.val) - 1

\* A frame of three statements with two different positive valorcota, and of
\* two returns.
C11_Witness ==
    /\ pc = "loaded" /\ frame.exc = "none" /\ Len(frame.val) = 3
    /\ \A i \in 1..3 : ~frame.val[i].valorcota.nan /\ frame.val[i].valorcota.val > 0
    /\ \E i \in 2..3 : frame.val[i].valorcota_return.k = "num"
                          /\ frame.val[i].valorcota_return.v # 0
    /\ Len(dropna(valorcota_return(frame.val))) = 2

\* ------------------------------------------------- claims under SpecVar

\* calculate_var returned a value, not None.
HasVar == pc \in {"var", "report"} /\ var_out.value # None

OneDayVar == Abs(Quantile(dropna(valorcota_return(frame.val))))

\* C13: the VaR reported for 21 business days is the one-day VaR of the
\* series times sqrt(21), to within one hundredth of a percent.
C13_SqrtOfTimeScaling ==
    (HasVar /\ var_out.value.k = "num") =>
        /\ var_out.value.v * 1000 - OneDayVar.v * SqrtMilli(21) <= 1000
        /\ OneDayVar.v * SqrtMilli(21) - var_out.value.v * 1000 <= 1000

\* The return series of the frame: its valorcota_return without missing values.
ReturnSeries == dropna(valorcota_return(frame.val))

\* C15: the expected daily return, the worst return and the VaR that
\* run_analysis reports are the mean, the minimum and the size of the 5%
\* quantile of one series, the valorcota_return of the frame, and that series
\* is the simple percentage return of valorcota between consecutive rows.
C15_OneReturnSeries ==
    pc = "report" =>
        /\ stress_out.expected_daily_return_cota = MeanOf(ReturnSeries)
        /\ stress_out.worst_stress_cota_return = MinOf(ReturnSeries)
        /\ stress_out.ibovespa_worst_scenario = MinOf(ReturnSeries)
        /\ var_out.value # None => var_out.value = Abs(Quantile(ReturnSeries))
        /\ \A i \in 2..Len(frame.val) :
              (~frame.val[i - 1].valorcota.nan /\ ~frame.val[i].valorcota.nan) =>
                  frame.val[i].valorcota_return
                      = Pct(frame.val[i - 1].valorcota, frame.val[i].valorcota)

\* A report with a VaR, a worst return below 0 and a mean other than 0, on a
\* frame whose patliq returns have another minimum than its valorcota returns.
C15_Witness ==
    /\ pc = "report" /\ var_out.value # None /\ var_out.value.k = "num"
    /\ stress_out.worst_stress_cota_return.k = "num"
    /\ stress_out.worst_stress_cota_return.v < 0
    /\ stress_out.expected_daily_return_cota.k = "num"
    /\ stress_out.expected_daily_return_cota.v # 0
    /\ MinOf(dropna(patliq_return(frame.val))) # MinOf(ReturnSeries)

\* ---------------------------------------------- claims under SpecUpload

\* C20: after any sequence of upload_files and clear_files requests, every
\* .xml file in XML_FOLDER is a file that passes validate_xml_structure, also
\* when the extraction of an archive raised part-way through a member.
C20_StoredFilesValidated ==
    \A n \in DOMAIN folder : EndsWithXml(n) => validate_xml_structure(folder[n])

\* C21: an uploaded item (a plain .xml file or a member of an archive) that
\* fails validate_xml_structure leaves the .xml files stored in XML_FOLDER as
\* they were, names and contents, also when its name is that of a stored file.
\* The requests looked at are the uploads all of whose items failed the
\* validation: nothing was counted and every error is that of an invalid
\* structure.
C21_InvalidUploadKeepsStored ==
    [][(/\ upload_out'.route = "upload"
        /\ upload_out'.uploaded_count = 0
        /\ upload_out'.errors # <<>>
        /\ \A i \in 1..Len(upload_out'.errors) :
              upload_out'.errors[i].fmt
                  \in {"Estrutura invalida: {}", "Estrutura XML invalida: {}"})
          => folder' = folder]_vars

\* ----------------------------------------------- claims under SpecServe

\* C22: from a clear_files request that returned status success until uploads
\* have stored at least MIN_XML_FILES .xml files again, every analyze request
\* returns an error record, never an answer set.  The clear leaves no .xml
\* file behind, and an analyze request over fewer than MIN_XML_FILES .xml
\* files answers with an error record.
C22_NoAnswersAfterClear ==
    /\ []((/\ cleared
           /\ upload_out.route = "analyze"
           /\ Cardinality({n \in DOMAIN folder : EndsWithXml(n)}) < MIN_XML_FILES)
          => DOMAIN upload_out.data = {"erro"})
    /\ [][(upload_out'.route = "clear" /\ upload_out'.status = "success")
             => \A n \in DOMAIN folder' : ~EndsWithXml(n)]_vars

\* An analyze request refused after a clear and a later upload of some, but
\* fewer than MIN_XML_FILES, statements.
C22_Witness ==
    /\ cleared
    /\ upload_out.route = "analyze"
    /\ Cardinality({n \in DOMAIN folder : EndsWithXml(n)}) \in 1..(MIN_XML_FILES - 1)
    /\ DOMAIN upload_out.data = {"erro"}

\* -------------------------------------------- further claims under Spec

\* C23: whenever analyze refuses a directory that exists for lack of
\* statements (fewer than MIN_XML_FILES .xml files listed, or fewer than
\* MIN_XML_FILES valid results, none included), the 'erro' record it returns
\* carries the required minimum and the count that was found: the number of
\* .xml files when that was short, the number of valid results otherwise.
C23_RefusalStatesMinimumAndCount ==
    (/\ pc = "analyzed" /\ dir_exists
     /\ (Len(XmlFiles) < MIN_XML_FILES \/ ValidCount < MIN_XML_FILES))
    => /\ DOMAIN answers = {"erro"}
       /\ answers.erro.args =
            <<NatToDigits(MIN_XML_FILES),
              NatToDigits(IF Len(XmlFiles) < MIN_XML_FILES
                          THEN Len(XmlFiles) ELSE ValidCount)>>

\* C25: the fund_name, the statement_date and the metrics of an answer set
\* are those of the first valid result of the list, whose order after analyze
\* is that of the .xml files in the directory listing; no date is compared.
C25_SampleIsFirstValid ==
    IsAnswerSet =>
        LET first == CHOOSE i \in 1..Len(results) :
                        ~HasError(results[i]) /\ \A j \in 1..(i - 1) : HasError(results[j])
            m == results[first].risk_metrics
        IN  /\ pc = "analyzed" =>
                  /\ Len(results) = Len(XmlFiles)
                  /\ results[first] = parse_xml_file(defs, XML_FOLDER, XmlFiles[first].name,
                                                     XmlFiles[first].doc)
            /\ answers["fund_name"] = GetOrNA(results[first].fund_info, "fund_name")
            /\ answers["statement_date"] = GetOrNA(results[first].fund_info, "statement_date")
            /\ answers["1_var_21_days_95_percent"] = Format2(m.var_21_days_95_percent)
            /\ answers["2_var_model_class"] = m.var_model_class
            /\ answers["3_ibovespa_worst_scenario"] = m.stress_scenarios.ibovespa_worst
            /\ answers["4_juros_pre_worst_scenario"] = m.stress_scenarios.juros_pre_worst
            /\ answers["5_cupom_cambial_worst_scenario"] = m.stress_scenarios.cupom_cambial_worst
            /\ answers["6_dolar_worst_scenario"] = m.stress_scenarios.dolar_worst
            /\ answers["7_outros_worst_scenario"] = m.stress_scenarios.outros_worst
            /\ answers["8_daily_expected_variation"] = Format2(m.daily_expected_variation)
            /\ answers["9_worst_stress_variation"] = Format2(m.worst_stress_variation)
            /\ answers["10_sensitivity_juros_1pct"] = Format2(m.sensitivity_juros_1pct)
            /\ answers["11_sensitivity_cambio_1pct"] = Format2(m.sensitivity_cambio_1pct)
            /\ answers["12_sensitivity_ibovespa_1pct"] = Format2(m.sensitivity_ibovespa_1pct)
            /\ answers["13_other_risk_factor"] = m.other_risk_factor
            /\ answers["13_sensitivity_other_factor"] = Format2(m.sensitivity_other_factor)

\* An answer set of analyze over a listing that begins with a file that
\* fails and ends with the statement of the latest date, that of FUNDO B: the
\* fund and the date shown are those of the statement listed second, of an
\* earlier date.
C25_Witness ==
    /\ IsAnswerSet /\ pc = "analyzed"
    /\ HasError(results[1]) /\ ~HasError(results[2])
    /\ results[Len(results)].fund_info["statement_date"] = Text.TDate2
    /\ results[2].fund_info["statement_date"] = Text.TDate1
    /\ answers["statement_date"] = Text.TDate1
    /\ answers["fund_name"] = Text.TFundA

\* ----------------------------------------- further claims under SpecVar

\* C24: calculate_var returns a number, with the label of the historical
\* method, exactly when the valorcota_return column has at least days
\* non-missing values, and otherwise None with the message that the data do not
\* suffice. The first row of a frame has no return: a frame of n dated rows
\* of positive valorcota has n - 1 returns, so a frame of MIN_XML_FILES rows
\* or fewer gets no value and a value takes at least MIN_XML_FILES + 1 rows.
C24_VarNeedsDaysReturns ==
    pc \in {"var", "report"} =>
        /\ var_out.value # None <=> Len(dropna(valorcota_return(frame.val))) >= days
        /\ var_out.value # None =>
              /\ var_out.value.k = "num"
              /\ var_out.label = "Historico"
              /\ Len(frame.val) >= MIN_XML_FILES + 1
        /\ var_out.value = None =>
              var_out.label = "Nao ha dados suficientes para calcular o VAR para 21 dias uteis."
        /\ Len(frame.val) <= MIN_XML_FILES => var_out.value = None
        /\ (\A i \in 1..Len(frame.val) :
               /\ ~frame.val[i].dtposicao.nat
               /\ ~frame.val[i].valorcota.nan /\ frame.val[i].valorcota.val > 0)
           => Len(dropna(valorcota_return(frame.val))) = Len(frame.val) - 1

\* A frame of MIN_XML_FILES + 1 dated statements of positive, changing
\* valorcota: days returns, and a number for the VaR.
C24_Witness ==
    /\ pc \in {"var", "report"}
    /\ Len(frame.val) = MIN_XML_FILES + 1
    /\ \A i \in 1..Len(frame.val) :
          /\ ~frame.val[i].dtposicao.nat
          /\ ~frame.val[i].valorcota.nan /\ frame.val[i].valorcota.val > 0
    /\ Len(dropna(valorcota_return(frame.val))) = days
    /\ var_out.value # None /\ var_out.value.k = "num" /\ var_out.value.v > 0
    /\ var_out.label = "Historico"

====
